---- MODULE Spec2Model ----
(***************************************************************************)
(* Model of the HVAC mock-data generator (package hvac, GenerateHvacData)  *)
(* in its three revisions that carry the asset/fault/energy logic:         *)
(*   "drift"       src/internal/hvac/generator.go (package-level state)    *)
(*   "seasonal"    src/unnamed/part_001 (month profile, additive cost)     *)
(*   "seasonalMul" src/cmd/mock-generator/main.go:415-563 (month profile,  *)
(*                 multiplicative inefficiency factor)                     *)
(* and of one run of main (src/cmd/mock-generator/main.go:14-67, with the  *)
(* S3 sink of src/unnamed/part_000:83-133) over a file read by             *)
(* climate.ReadInmetCSV (main.go:89-226).  Spec is the generator called on *)
(* single records from the package states a run reaches; SpecMain is the   *)
(* run: read, generate in a loop, serialize, save.                         *)
(*                                                                         *)
(* float64 values are fixed point.  equipmentHealth and                    *)
(* currentFilterClogLevel are in millionths (1.0 = 1000000); every other   *)
(* quantity (degrees, Pa, ppm, psi, kW, percent) is in thousandths.        *)
(* rng.Float64() returns n/100 for a draw n in 0..99, so the result is in  *)
(* [0,1) as in Go; rng.Intn(10) returns 0..9.  The draws that only place a  *)
(* reading inside its range share one value per call; a draw that decides  *)
(* a branch is chosen on its own, and is 0 when the call does not reach it.*)
(***************************************************************************)
EXTENDS Integers, Sequences, FiniteSets, TLC

VARIABLES variant, equipmentHealth, currentFilterClogLevel, lastMonth,
          generated, call, rec, rng,
          pc, csvFile, climateRecords, allHvacData, jsonData, sink

\* The state of package hvac and of the last GenerateHvacData call.
hvacVars == <<variant, equipmentHealth, currentFilterClogLevel, lastMonth,
              generated, call, rec, rng>>

\* The state of one run of main.
mainVars == <<pc, csvFile, climateRecords, allHvacData, jsonData, sink>>

vars == <<variant, equipmentHealth, currentFilterClogLevel, lastMonth,
          generated, call, rec, rng,
          pc, csvFile, climateRecords, allHvacData, jsonData, sink>>

Micro == 1000 * 1000

Max(a, b) == IF a >= b THEN a ELSE b
Min(a, b) == IF a <= b THEN a ELSE b
Abs(a) == IF a < 0 THEN 0 - a ELSE a

\* ------------------------------------------------------------------ bounds
\* Number of GenerateHvacData calls of one modelled run.
MaxRecords == 1

\* ------------------------------------------------------- program constants
September == 9
HealthFloorDrift == 200000
HealthFloorSeasonal == 400000
HealthCeiling == 1000000
ClogCeiling == 1000000
FilterThresholdDrift == 600000
FilterThresholdSeasonal == 800000
DuctCeiling == 20000
HumidityThreshold == 75000
Co2Threshold == 800000
baseInternalTemp == 22000
StandbyPower == 10
MaintenanceClogBound == 50000

Variants == {"drift", "seasonal", "seasonalMul"}
SeasonalVariants == {"seasonal", "seasonalMul"}

\* ------------------------------------------------------------------ inputs
\* time.Weekday is 0 (Sunday) .. 6 (Saturday): 3 is a Wednesday.
\* climate.InmetClimateData: the timestamp is reduced to the parts the code
\* reads (Month, Weekday, Hour).
ClimateRecord(m, wd, h, t, rh) ==
  [month |-> m, weekday |-> wd, hour |-> h,
   TemperatureAir |-> t, RelativeHumidity |-> rh]

Humidities == {50000, 75000, 76000, 85000, 100000}

\* The climate records a call is tried on: cooling weather in the humid and
\* the dry case, before, in and after the maintenance month; a weekday night;
\* lunch hours on a weekday and at the weekend; heating and mild weather.
Climates ==
  {ClimateRecord(September, 3, 10, 35000, 85000),
   ClimateRecord(8, 3, 10, 35000, 85000),
   ClimateRecord(8, 3, 10, 35000, 50000),
   ClimateRecord(8, 3, 3, 22000, 50000),
   ClimateRecord(September, 6, 12, 25000, 50000),
   ClimateRecord(1, 3, 10, 5000, 85000),
   ClimateRecord(12, 3, 12, 25000, 76000),
   ClimateRecord(12, 3, 10, 22000, 75000)}

\* Draws of rng.Float64(), in hundredths.
TwoDraws == {0, 99}
OccupancyDraws == {5, 50, 95}
NoDraw == {0}

DrawVector(h, c, mh, mc, jh, jc, o, s, t, j, co, fl, fi, fn, pw) ==
  [health |-> h, clog |-> c, maintHealth |-> mh, maintClog |-> mc,
   jitterHealth |-> jh, jitterClog |-> jc, occupancy |-> o, setPoint |-> s,
   temp |-> t, duct |-> j, co2 |-> j, refrigerant |-> j, co2Occupied |-> co,
   final |-> j, supply |-> j, refrigerantMode |-> j, fanDuct |-> j,
   fault |-> fl, filter |-> fi, fan |-> fn, power |-> pw,
   device |-> (j * 9) \div 99]

\* ------------------------------------------------------------ occupancy
\* generator.go: no lunch window.
simulateOccupancyDrift(c, r) ==
  IF c.weekday >= 1 /\ c.weekday <= 5 /\ c.hour >= 8 /\ c.hour < 18
  THEN r < 90
  ELSE r < 10

\* part_001 and main.go: lunch window first, on every day of the week.
simulateOccupancy(c, r) ==
  IF c.hour >= 12 /\ c.hour < 14
  THEN r < 30
  ELSE IF c.weekday >= 1 /\ c.weekday <= 5 /\ c.hour >= 8 /\ c.hour < 18
       THEN r < 90
       ELSE r < 10

\* ---------------------------------------------------------------- record
\* hvac.HvacSensorData; Timestamp is kept as the month, weekday and hour.
\* Mutant of DeviceId: the result of rng.Intn(10) used as it is.
DeviceIdZeroBased(d) == [prefix |-> "SALA-", n |-> d.device]

\* fmt.Sprintf("SALA-%d", rng.Intn(10)+1): the literal prefix and the number.
DeviceId(d) == [prefix |-> "SALA-", n |-> d.device + 1]

NoRecord ==
  [month |-> 0, weekday |-> 0, hour |-> 0,
   InternalTemperature |-> 0, SetPointTemperature |-> 0,
   SystemStatus |-> "NONE", OccupancyStatus |-> FALSE,
   PowerConsumptionKwH |-> 0, OutdoorTemperature |-> 0,
   OutdoorHumidity |-> 0, DeviceId |-> [prefix |-> "", n |-> 0],
   SupplyAirTemperature |-> 0, ReturnAirTemperature |-> 0,
   DuctStaticPressurePa |-> 0, CO2LevelPpm |-> 0,
   RefrigerantPressurePsi |-> 0, FaultCode |-> "NONE",
   AssetModel |-> "NONE", LocationZone |-> "NONE"]

\* ------------------------------------------- generator.go: cumulative drift
\* Mutants of DriftHealth: the floor left out; the decrement added.
DriftHealthNoFloor(pre, d) == pre.health - d.health

DriftHealthRecovers(pre, d) ==
  LET h == pre.health + d.health
  IN IF h < HealthFloorDrift THEN HealthFloorDrift ELSE h

\* equipmentHealth -= rng.Float64() * 0.0001, floored at 0.2.
DriftHealth(pre, d) ==
  LET h == pre.health - d.health
  IN IF h < HealthFloorDrift THEN HealthFloorDrift ELSE h

\* Mutant of DriftClog: the level falls by the increment instead of rising.
DriftClogShrinks(pre, c, d) ==
  LET g == pre.clog - d.clog * 10
  IN IF c.month = September THEN d.maintClog * 500
     ELSE IF g < 0 THEN 0 ELSE g

\* Mutant of DriftClog: no September cleaning.
DriftClogNoMaintenance(pre, c, d) ==
  LET g == pre.clog + d.clog * 10
  IN IF g > ClogCeiling THEN ClogCeiling ELSE g

\* currentFilterClogLevel += rng.Float64() * 0.001, capped at 1.0, and
\* replaced by rng.Float64() * 0.05 in September.
DriftClog(pre, c, d) ==
  LET g == pre.clog + d.clog * 10
      capped == IF g > ClogCeiling THEN ClogCeiling ELSE g
  IN IF c.month = September THEN d.maintClog * 500 ELSE capped

DriftReturnTemp(c, d) ==
  baseInternalTemp + (c.TemperatureAir - baseInternalTemp) \div 4
    + (d.temp - 50) * 15

DriftSetPoint(d) == baseInternalTemp + 20 * (d.setPoint - 50)

DriftCo2(c, d) ==
  IF simulateOccupancyDrift(c, d.occupancy)
  THEN 600000 + 3000 * d.co2Occupied
  ELSE 450000 + 500 * d.co2

\* Mutant of DriftStatus: a high degradation draw switches the system off.
DriftStatusWornOff(c, d) ==
  LET tempDiff == c.TemperatureAir - DriftSetPoint(d)
  IN IF simulateOccupancyDrift(c, d.occupancy) /\ d.health <= 50
     THEN IF Abs(tempDiff) > 4000
          THEN IF tempDiff > 0 THEN "COOLING" ELSE "HEATING"
          ELSE IF Abs(tempDiff) > 1500 THEN "FAN_ONLY" ELSE "OFF"
     ELSE "OFF"

\* Mutant of DriftStatus: the thermal rule applied without the occupancy test.
DriftStatusIgnoresOccupancy(c, d) ==
  LET tempDiff == c.TemperatureAir - DriftSetPoint(d)
  IN IF Abs(tempDiff) > 4000
     THEN IF tempDiff > 0 THEN "COOLING" ELSE "HEATING"
     ELSE IF Abs(tempDiff) > 1500 THEN "FAN_ONLY" ELSE "OFF"

\* The CO2 rule at lines 122-127 may set FAN_ONLY first, but the control
\* block at lines 129-150 then assigns systemStatus on every path, so the
\* emitted status is the control block's.
DriftStatus(c, d) ==
  LET tempDiff == c.TemperatureAir - DriftSetPoint(d)
  IN IF simulateOccupancyDrift(c, d.occupancy)
     THEN IF Abs(tempDiff) > 4000
          THEN IF tempDiff > 0 THEN "COOLING" ELSE "HEATING"
          ELSE IF Abs(tempDiff) > 1500 THEN "FAN_ONLY" ELSE "OFF"
     ELSE "OFF"

DriftSupplyTemp(status, c, d) ==
  IF status = "COOLING" THEN DriftReturnTemp(c, d) - (40 * d.supply + 8000)
  ELSE IF status = "HEATING" THEN DriftReturnTemp(c, d) + (30 * d.supply + 5000)
  ELSE DriftReturnTemp(c, d)

DriftRefrigerantPressure(status, d) ==
  IF status = "COOLING" THEN 150000 + 200 * d.refrigerantMode
  ELSE IF status = "HEATING" THEN 100000 + 50 * d.refrigerantMode
  ELSE 80000 + 50 * d.refrigerant

\* Mutant of DriftDuctPressure: the clog level weighs 10 Pa instead of 5.
DriftDuctPressureSteep(status, clog, d) ==
  (IF status = "FAN_ONLY" THEN 12000 + 10 * d.fanDuct ELSE 10000 + 20 * d.duct)
    + clog \div 100

\* ductPressure := 10 + r*2 (12 + r in FAN_ONLY), += clog * 5.
DriftDuctPressure(status, clog, d) ==
  (IF status = "FAN_ONLY" THEN 12000 + 10 * d.fanDuct ELSE 10000 + 20 * d.duct)
    + clog \div 200

\* Mutant of DriftFaultCode: the two mode alarms exchanged.
DriftFaultCodeSwapped(status, health, clog, duct, d) ==
  LET byMode == IF status = "COOLING" /\ d.fault * 10000 > health
                THEN "HT-FL-02"
                ELSE IF status = "HEATING" /\ d.fault * 10000 > health
                     THEN "HP-AL-01" ELSE "OK"
      byFilter == IF clog > FilterThresholdDrift /\ d.filter > 50
                  THEN "FP-AL-01" ELSE byMode
  IN IF duct > DuctCeiling THEN "FP-AL-02" ELSE byFilter

\* rng.Float64() > equipmentHealth, the draw in hundredths.
FaultDrawExceeds(r, health) == r * 10000 > health

DriftFaultCode(status, health, clog, duct, d) ==
  LET byMode == IF status = "COOLING" /\ FaultDrawExceeds(d.fault, health)
                THEN "HP-AL-01"
                ELSE IF status = "HEATING" /\ FaultDrawExceeds(d.fault, health)
                     THEN "HT-FL-02" ELSE "OK"
      byFilter == IF clog > FilterThresholdDrift /\ d.filter > 50
                  THEN "FP-AL-01" ELSE byMode
  IN IF duct > DuctCeiling THEN "FP-AL-02" ELSE byFilter

\* Mutant of DriftHumidityTerm: the term falls as humidity rises.
DriftHumidityTermInverted(rh) == ((100000 - rh) * 5) \div 100

\* generator.go: (RelativeHumidity / 100) * 5 at every humidity.
DriftHumidityTerm(rh) == (rh * 5) \div 100

DriftPower(status, c, health, clog, d) ==
  LET tempDiff == c.TemperatureAir - DriftSetPoint(d)
      wear == (2 * Micro - health) \div 1000
  IN IF status = "COOLING"
     THEN ((((2000 + 4 * tempDiff + DriftHumidityTerm(c.RelativeHumidity)) * wear)
              \div 1000) * (1000 + clog \div 2000)) \div 1000
     ELSE IF status = "HEATING"
          THEN ((2000 + (Abs(tempDiff) * 3) \div 2) * wear) \div 1000
          ELSE IF status = "FAN_ONLY" THEN 300 + d.fan ELSE 0

GenerateHvacDataDrift(pre, c, d) ==
  LET health == DriftHealth(pre, d)
      clog == DriftClog(pre, c, d)
      status == DriftStatus(c, d)
      duct == DriftDuctPressure(status, clog, d)
  IN [health |-> health, clog |-> clog,
      rec |->
        [month |-> c.month, weekday |-> c.weekday, hour |-> c.hour,
         InternalTemperature |-> DriftReturnTemp(c, d),
         SetPointTemperature |-> DriftSetPoint(d),
         SystemStatus |-> status,
         OccupancyStatus |-> simulateOccupancyDrift(c, d.occupancy),
         PowerConsumptionKwH |-> DriftPower(status, c, health, clog, d),
         OutdoorTemperature |-> c.TemperatureAir,
         OutdoorHumidity |-> c.RelativeHumidity,
         DeviceId |-> DeviceId(d),
         SupplyAirTemperature |-> DriftSupplyTemp(status, c, d),
         ReturnAirTemperature |-> DriftReturnTemp(c, d),
         DuctStaticPressurePa |-> duct,
         CO2LevelPpm |-> DriftCo2(c, d),
         RefrigerantPressurePsi |-> DriftRefrigerantPressure(status, d),
         FaultCode |-> DriftFaultCode(status, health, clog, duct, d),
         AssetModel |-> "HVAC-Model-B", LocationZone |-> "Zona-A"]]

\* ------------------------------- part_001 / main.go: seasonal month profile
\* Health by calendar month, plus jitter, clamped to [0.4, 1.0].
SeasonalHealth(c, d) ==
  LET m == c.month
      base == IF m = September THEN 800000 + d.maintHealth * 2000
              ELSE IF m > September
                   THEN 800000 - ((m - 9) * 200000) \div 3
                   ELSE Micro - (m * 400000) \div 9
      h == base + (d.jitterHealth - 50) * 1000
  IN Max(HealthFloorSeasonal, Min(HealthCeiling, h))

\* Clog level by calendar month, plus jitter, clamped to [0, 1].
SeasonalClog(c, d) ==
  LET m == c.month
      base == IF m = September THEN d.maintClog * 500
              ELSE IF m > September
                   THEN 50000 + ((m - 9) * 400000) \div 3
                   ELSE (m * 800000) \div 9
      g == base + (d.jitterClog - 50) * 1000
  IN Max(0, Min(ClogCeiling, g))

SeasonalSetPoint(d) == baseInternalTemp + 15 * (d.setPoint - 50)

uncontrolledInternalTemp(c, d) ==
  baseInternalTemp + ((c.TemperatureAir - baseInternalTemp) * 4) \div 10
    + (d.temp - 50) * 15

SeasonalCo2(c, d) ==
  IF simulateOccupancy(c, d.occupancy)
  THEN 600000 + 3000 * d.co2Occupied
  ELSE 450000 + 500 * d.co2

\* Thermostat decision (lines 85-95).
SeasonalThermostat(c, d) ==
  LET diff == uncontrolledInternalTemp(c, d) - SeasonalSetPoint(d)
  IN IF simulateOccupancy(c, d.occupancy)
     THEN IF diff > 1500 THEN "COOLING"
          ELSE IF diff < 0 - 1500 THEN "HEATING"
          ELSE IF Abs(diff) < 1000 THEN "IDLE" ELSE "OFF"
     ELSE "OFF"

\* The ventilation rule (lines 104-109) turns IDLE into FAN_ONLY.
SeasonalStatus(c, d) ==
  IF simulateOccupancy(c, d.occupancy)
     /\ SeasonalCo2(c, d) > Co2Threshold /\ SeasonalThermostat(c, d) = "IDLE"
  THEN "FAN_ONLY"
  ELSE SeasonalThermostat(c, d)

finalInternalTemp(status, c, d) ==
  IF status = "COOLING" THEN SeasonalSetPoint(d) + 5 * d.final
  ELSE IF status = "HEATING" THEN SeasonalSetPoint(d) - 5 * d.final
  ELSE IF status \in {"IDLE", "FAN_ONLY"}
       THEN SeasonalSetPoint(d) + 5 * (d.final - 50)
       ELSE uncontrolledInternalTemp(c, d)

\* Mutant of SeasonalSupplyTemp: outside COOLING and HEATING the supply air
\* follows the final indoor temperature.
SeasonalSupplyFinal(status, c, d) ==
  IF status = "COOLING"
  THEN finalInternalTemp(status, c, d) - (40 * d.supply + 8000)
  ELSE IF status = "HEATING"
       THEN finalInternalTemp(status, c, d) + (30 * d.supply + 5000)
       ELSE finalInternalTemp(status, c, d)

SeasonalSupplyTemp(status, c, d) ==
  IF status = "COOLING"
  THEN finalInternalTemp(status, c, d) - (40 * d.supply + 8000)
  ELSE IF status = "HEATING"
       THEN finalInternalTemp(status, c, d) + (30 * d.supply + 5000)
       ELSE uncontrolledInternalTemp(c, d)

SeasonalRefrigerantPressure(status, d) ==
  IF status = "COOLING" THEN 150000 + 200 * d.refrigerantMode
  ELSE IF status = "HEATING" THEN 100000 + 50 * d.refrigerantMode
  ELSE 80000 + 50 * d.refrigerant

SeasonalDuctPressure(clog, d) == 10000 + 20 * d.duct + clog \div 200

SeasonalFaultCode(status, health, clog, duct, d) ==
  LET byMode == IF status = "COOLING" /\ FaultDrawExceeds(d.fault, health)
                THEN "HP-AL-01"
                ELSE IF status = "HEATING" /\ FaultDrawExceeds(d.fault, health)
                     THEN "HT-FL-02" ELSE "OK"
      byFilter == IF clog > FilterThresholdSeasonal /\ d.filter > 50
                  THEN "FP-AL-01" ELSE byMode
  IN IF duct > DuctCeiling THEN "FP-AL-02" ELSE byFilter

\* Mutant of SeasonalHumidityLoad: the penalty starts at 90 %.
SeasonalHumidityLoadLate(rh) ==
  IF rh > 90000 THEN ((rh - 90000) * 8) \div 100 ELSE 0

\* part_001: humidityLoad = (RH - 75) / 100 * 8 above 75 %.
SeasonalHumidityLoad(rh) ==
  IF rh > HumidityThreshold THEN ((rh - HumidityThreshold) * 8) \div 100 ELSE 0

\* part_001: additive inefficiency cost, +/-5 % jitter, floor of 0.01.
SeasonalPower(status, c, health, clog, d) ==
  LET inefficiencyCost == (Micro - health) \div 1000 + clog \div 2500
      setPoint == SeasonalSetPoint(d)
      raw == IF status = "COOLING"
             THEN 3000 + (Max(0, c.TemperatureAir - setPoint) * 4) \div 10
                    + SeasonalHumidityLoad(c.RelativeHumidity) + inefficiencyCost
             ELSE IF status = "HEATING"
                  THEN 2200 + (Max(0, setPoint - c.TemperatureAir) * 15) \div 100
                         + inefficiencyCost
                  ELSE IF status = "FAN_ONLY" THEN 300 + d.fan
                       ELSE StandbyPower
      jittered == (raw * (1000 + (d.power - 50))) \div 1000
  IN Max(StandbyPower, jittered)

\* main.go: humidityLoad = (RH - 75) / 100 * 10 above 75 %.
SeasonalMulHumidityLoad(rh) ==
  IF rh > HumidityThreshold THEN ((rh - HumidityThreshold) * 10) \div 100 ELSE 0

\* main.go: multiplicative inefficiency factor, +/-5 % jitter, no floor.
SeasonalMulPower(status, c, health, clog, d) ==
  LET inefficiencyFactor == 1000 + (Micro - health) \div 2000 + clog \div 4000
      setPoint == SeasonalSetPoint(d)
      raw == IF status = "COOLING"
             THEN ((2000 + (Max(0, c.TemperatureAir - setPoint) * 5) \div 10
                      + SeasonalMulHumidityLoad(c.RelativeHumidity))
                     * inefficiencyFactor) \div 1000
             ELSE IF status = "HEATING"
                  THEN ((2500 + (Max(0, setPoint - c.TemperatureAir) * 2) \div 10)
                          * inefficiencyFactor) \div 1000
                  ELSE IF status = "FAN_ONLY" THEN 400 + d.fan
                       ELSE StandbyPower
  IN (raw * (1000 + (d.power - 50))) \div 1000

SeasonalRecord(c, d, health, clog, power) ==
  LET status == SeasonalStatus(c, d)
      duct == SeasonalDuctPressure(clog, d)
  IN [month |-> c.month, weekday |-> c.weekday, hour |-> c.hour,
      InternalTemperature |-> finalInternalTemp(status, c, d),
      SetPointTemperature |-> SeasonalSetPoint(d),
      SystemStatus |-> status,
      OccupancyStatus |-> simulateOccupancy(c, d.occupancy),
      PowerConsumptionKwH |-> power,
      OutdoorTemperature |-> c.TemperatureAir,
      OutdoorHumidity |-> c.RelativeHumidity,
      DeviceId |-> DeviceId(d),
      SupplyAirTemperature |-> SeasonalSupplyTemp(status, c, d),
      ReturnAirTemperature |-> finalInternalTemp(status, c, d),
      DuctStaticPressurePa |-> duct,
      CO2LevelPpm |-> SeasonalCo2(c, d),
      RefrigerantPressurePsi |-> SeasonalRefrigerantPressure(status, d),
      FaultCode |-> SeasonalFaultCode(status, health, clog, duct, d),
      AssetModel |-> "HVAC-Model-B", LocationZone |-> "Zona-A"]

\* part_001 GenerateHvacData; health and clog are locals, recomputed per call.
GenerateHvacDataSeasonal(pre, c, d) ==
  LET health == SeasonalHealth(c, d)
      clog == SeasonalClog(c, d)
  IN [health |-> health, clog |-> clog,
      rec |-> SeasonalRecord(c, d, health, clog,
                SeasonalPower(SeasonalStatus(c, d), c, health, clog, d))]

\* main.go GenerateHvacData (lines 415-563).
GenerateHvacDataSeasonalMul(pre, c, d) ==
  LET health == SeasonalHealth(c, d)
      clog == SeasonalClog(c, d)
  IN [health |-> health, clog |-> clog,
      rec |-> SeasonalRecord(c, d, health, clog,
                SeasonalMulPower(SeasonalStatus(c, d), c, health, clog, d))]

\* The GenerateHvacData of the linked revision.
GenerateHvacData(v, pre, c, d) ==
  IF v = "drift" THEN GenerateHvacDataDrift(pre, c, d)
  ELSE IF v = "seasonal" THEN GenerateHvacDataSeasonal(pre, c, d)
  ELSE GenerateHvacDataSeasonalMul(pre, c, d)

\* --------------------------------------------------------------------- rng
\* The package generator: init() builds it from one rand.NewSource; no other
\* statement assigns rng or randSource.  position counts the draws taken.
SeededRng == [source |-> "init", seedings |-> 1, position |-> 0]

B2N(b) == IF b THEN 1 ELSE 0

\* The rng.Float64() and rng.Intn() calls of one GenerateHvacData call, by
\* the path it takes.
DrawCountDrift(pre, c, d) ==
  LET status == DriftStatus(c, d)
  IN 8 + B2N(c.month = September)
       + B2N(simulateOccupancyDrift(c, d.occupancy))
       + (IF status \in {"COOLING", "HEATING"} THEN 3
          ELSE IF status = "FAN_ONLY" THEN 2 ELSE 0)
       + B2N(DriftClog(pre, c, d) > FilterThresholdDrift)
       + 1

DrawCountSeasonal(c, d) ==
  LET status == SeasonalStatus(c, d)
  IN (IF c.month = September THEN 2 ELSE 0) + 2 + 6
       + B2N(simulateOccupancy(c, d.occupancy))
       + (IF status \in {"COOLING", "HEATING"} THEN 4
          ELSE IF status = "FAN_ONLY" THEN 2
          ELSE IF status = "IDLE" THEN 1 ELSE 0)
       + B2N(SeasonalClog(c, d) > FilterThresholdSeasonal)
       + 2

DrawCount(v, pre, c, d) ==
  IF v = "drift" THEN DrawCountDrift(pre, c, d) ELSE DrawCountSeasonal(c, d)

\* Mutant of RngAfterCall: the call builds a new generator for its draws.
RngReseeded(r, n) ==
  [source |-> "call", seedings |-> r.seedings + 1, position |-> n]

\* The generator after a call that took n draws: the same instance, advanced.
RngAfterCall(r, n) == [r EXCEPT !.position = @ + n]

\* ------------------------------------------------------------------- state
AssetState(h, g, m) == [health |-> h, clog |-> g, month |-> m]

\* init() leaves health 1.0 and clog 0.0.  The drift of one record is at most
\* 0.0001 and 0.001, so the clamps, the filter threshold and the September
\* reset are only met well into a run: the other start states are package
\* states a run reaches after the stated prefix of records.
\*   930700/693000: 700 records, every draw 0.99, the last one in August
\*   200080/999900: 8080 records with health draws 0.99, the last 1010 of them
\*                  after a September reset to 0 with clog draws 0.99
\*   406000/49500:  6000 records with health draws 0.99, the last in September
StartStates(v) ==
  IF v = "drift"
  THEN {AssetState(Micro, 0, 0), AssetState(930700, 693000, 8),
        AssetState(200080, 999900, 11), AssetState(406000, 49500, 9)}
  ELSE {AssetState(Micro, 0, 0)}

\* A state of package hvac alone: no run of main is in progress.
NoFile == [status |-> "none", rows |-> <<>>]

NoSink == [kind |-> "none", calls |-> 0, stored |-> "none"]

NoCall(pre) ==
  [climate |-> ClimateRecord(0, 0, 0, 0, 0),
   draws |-> DrawVector(0, 0, 0, 0, 0, 0, 0, 0, 0, 0, 0, 0, 0, 0, 0),
   pre |-> pre]

Init ==
  /\ variant \in Variants
  /\ \E s \in StartStates(variant) :
       /\ equipmentHealth = s.health
       /\ currentFilterClogLevel = s.clog
       /\ lastMonth = s.month
       /\ call = NoCall(s)
  /\ generated = 0
  /\ rec = NoRecord
  /\ rng = SeededRng
  /\ pc = "none"
  /\ csvFile = NoFile
  /\ climateRecords = <<>>
  /\ allHvacData = <<>>
  /\ jsonData = <<>>
  /\ sink = NoSink

\* One call of GenerateHvacData on climate record c with draw vector d.
Emit(c, d) ==
  LET pre == AssetState(equipmentHealth, currentFilterClogLevel, lastMonth)
      out == GenerateHvacData(variant, pre, c, d)
  IN /\ equipmentHealth' = out.health
     /\ currentFilterClogLevel' = out.clog
     /\ lastMonth' = c.month
     /\ generated' = generated + 1
     /\ call' = [climate |-> c, draws |-> d, pre |-> pre]
     /\ rec' = out.rec
     /\ rng' = RngAfterCall(rng, DrawCount(variant, pre, c, d))
     /\ UNCHANGED variant

\* The draw vectors of one call on record c from package state pre: a draw
\* that decides a branch is enumerated only where the call reaches it.
DriftDraws(pre, c) ==
  UNION {
    LET probe == DrawVector(h, g, 0, mc, 0, 0, o, j, j, j, j, 0, 0, j, 0)
        status == DriftStatus(c, probe)
        clog == DriftClog(pre, c, probe)
    IN {DrawVector(h, g, 0, mc, 0, 0, o, j, j, j, j, fl, fi, j, 0) :
          fl \in (IF status \in {"COOLING", "HEATING"} THEN TwoDraws ELSE NoDraw),
          fi \in (IF clog > FilterThresholdDrift THEN TwoDraws ELSE NoDraw)} :
    h \in TwoDraws, g \in TwoDraws, o \in OccupancyDraws, j \in TwoDraws,
    mc \in (IF c.month = September THEN TwoDraws ELSE NoDraw)}

SeasonalDraws(c) ==
  UNION {
    LET probe == DrawVector(0, 0, ah, ag, ah, ag, o, s, j, j, 0, 0, 0, j, j)
        occupied == simulateOccupancy(c, o)
        thermostat == SeasonalThermostat(c, probe)
        clog == SeasonalClog(c, probe)
    IN {DrawVector(0, 0, ah, ag, ah, ag, o, s, j, j, co, fl, fi, j, j) :
          co \in (IF occupied
                  THEN (IF thermostat = "IDLE" THEN TwoDraws ELSE {j})
                  ELSE NoDraw),
          fl \in (IF thermostat \in {"COOLING", "HEATING"}
                  THEN TwoDraws ELSE NoDraw),
          fi \in (IF clog > FilterThresholdSeasonal THEN TwoDraws ELSE NoDraw)} :
    ah \in TwoDraws, ag \in TwoDraws, o \in OccupancyDraws, s \in TwoDraws,
    j \in TwoDraws}

GenerateDrift ==
  /\ variant = "drift"
  /\ generated < MaxRecords
  /\ \E c \in Climates :
       \E d \in DriftDraws(AssetState(equipmentHealth, currentFilterClogLevel,
                                       lastMonth), c) :
         Emit(c, d)
  /\ UNCHANGED mainVars

GenerateSeasonal ==
  /\ variant = "seasonal"
  /\ generated < MaxRecords
  /\ \E c \in Climates : \E d \in SeasonalDraws(c) : Emit(c, d)
  /\ UNCHANGED mainVars

GenerateSeasonalMul ==
  /\ variant = "seasonalMul"
  /\ generated < MaxRecords
  /\ \E c \in Climates : \E d \in SeasonalDraws(c) : Emit(c, d)
  /\ UNCHANGED mainVars

Next == GenerateDrift \/ GenerateSeasonal \/ GenerateSeasonalMul

Spec == Init /\ [][Next]_vars

\* ------------------------------------------------ climate.ReadInmetCSV
\* A data row of the INMET file, after the nine preamble lines and the
\* header.  shape is "fields" for a row with every mapped column, "short"
\* for a row that ends before the temperature column, "syntax" for a row
\* csv.Reader rejects.  The hour is the raw digit string ("1000", "300").
CsvRow(shape, date, timeStrRaw, temp, hum) ==
  [shape |-> shape, date |-> date, timeStrRaw |-> timeStrRaw,
   temp |-> temp, hum |-> hum]

DateStr(m, wd) == [ok |-> TRUE, month |-> m, weekday |-> wd]

NotADate == [ok |-> FALSE, month |-> 0, weekday |-> 0]

FloatStr(x) == [ok |-> TRUE, value |-> x]

NotAFloat == [ok |-> FALSE, value |-> 0]

\* Lines 187-195: "HHMM" becomes "HH:MM", "HMM" becomes "0H:MM", any other
\* length is refused.
timeStrFormatted(raw) ==
  IF Len(raw) = 4 THEN [ok |-> TRUE, digits |-> raw]
  ELSE IF Len(raw) = 3 THEN [ok |-> TRUE, digits |-> <<0>> \o raw]
  ELSE [ok |-> FALSE, digits |-> <<>>]

\* time.Parse("2006-01-02 15:04", ...): the hour is 00..23, the minute 00..59.
ParseTimestamp(date, raw) ==
  LET f == timeStrFormatted(raw)
      hh == IF f.ok THEN 10 * f.digits[1] + f.digits[2] ELSE 0
      mm == IF f.ok THEN 10 * f.digits[3] + f.digits[4] ELSE 0
  IN [ok |-> f.ok /\ date.ok /\ hh <= 23 /\ mm <= 59,
      month |-> date.month, weekday |-> date.weekday, hour |-> hh]

\* What one iteration of the loop at lines 147-223 does with a data row:
\* "error" (Read fails), "skip" (a warning and continue), "panic" (an index
\* past the end of the row), or "append".
RowOutcome(row) ==
  IF row.shape = "syntax" THEN "error"
  ELSE IF ~timeStrFormatted(row.timeStrRaw).ok THEN "skip"
  ELSE IF ~ParseTimestamp(row.date, row.timeStrRaw).ok THEN "skip"
  ELSE IF row.shape = "short" THEN "panic"
  ELSE IF ~row.temp.ok THEN "skip"
  ELSE IF ~row.hum.ok THEN "skip"
  ELSE "append"

RowRecord(row) ==
  LET t == ParseTimestamp(row.date, row.timeStrRaw)
  IN ClimateRecord(t.month, t.weekday, t.hour, row.temp.value, row.hum.value)

RECURSIVE ReadRows(_, _)
ReadRows(rows, climateData) ==
  IF rows = <<>> THEN [err |-> "nil", data |-> climateData]
  ELSE LET o == RowOutcome(Head(rows))
       IN IF o \in {"error", "panic"} THEN [err |-> o, data |-> <<>>]
          ELSE IF o = "skip" THEN ReadRows(Tail(rows), climateData)
          ELSE ReadRows(Tail(rows), Append(climateData, RowRecord(Head(rows))))

\* The file cannot be opened, or its header lacks a column: an error and no
\* data.  Otherwise the rows are read in order.
ReadInmetCSV(file) ==
  IF file.status = "unopenable" THEN [err |-> "open", data |-> <<>>]
  ELSE IF file.status = "badHeader" THEN [err |-> "header", data |-> <<>>]
  ELSE ReadRows(file.rows, <<>>)

\* ---------------------------------------------------------- bounds of a run
\* Data rows of the modelled file.
MaxRows == 2

\* The rows a file is built from: two well-formed rows (four and three hour
\* digits), and one row for each way a row can be refused.
GoodRow == CsvRow("fields", DateStr(September, 3), <<1, 0, 0, 0>>,
                  FloatStr(35000), FloatStr(85000))

GoodRowShortHour == CsvRow("fields", DateStr(8, 3), <<9, 0, 0>>,
                           FloatStr(5000), FloatStr(50000))

CsvRows ==
  {GoodRow, GoodRowShortHour,
   CsvRow("fields", DateStr(8, 3), <<1, 0>>, FloatStr(22000), FloatStr(50000)),
   CsvRow("fields", DateStr(8, 3), <<2, 4, 6, 0>>, FloatStr(22000), FloatStr(50000)),
   CsvRow("fields", NotADate, <<1, 0, 0, 0>>, FloatStr(22000), FloatStr(50000)),
   CsvRow("fields", DateStr(8, 3), <<1, 0, 0, 0>>, NotAFloat, FloatStr(50000)),
   CsvRow("fields", DateStr(8, 3), <<1, 0, 0, 0>>, FloatStr(22000), NotAFloat),
   CsvRow("short", DateStr(8, 3), <<1, 0, 0, 0>>, NotAFloat, NotAFloat),
   CsvRow("syntax", NotADate, <<>>, NotAFloat, NotAFloat)}

RECURSIVE RowSeqs(_)
RowSeqs(n) ==
  IF n = 0 THEN {<<>>}
  ELSE RowSeqs(n - 1)
         \cup {Append(q, r) : q \in {x \in RowSeqs(n - 1) : Len(x) = n - 1},
                              r \in CsvRows}

CsvFiles ==
  {[status |-> "unopenable", rows |-> <<>>],
   [status |-> "badHeader", rows |-> <<GoodRow>>]}
    \cup {[status |-> "ok", rows |-> q] : q \in RowSeqs(MaxRows)}

\* -------------------------------------------------------------------- main
\* The sink of the linked main: SaveJSONLocally (main.go) or UploadDataToS3
\* (part_000).
SinkKinds == {"local", "s3"}

\* What a failed sink call can leave behind.  os.WriteFile truncates the file
\* and writes in several system calls, so a failure can leave nothing or a
\* partially written file; a failed PutObject stores no object.
FailedStore(kind) == IF kind = "local" THEN {"none", "partial"} ELSE {"none"}

InitMain ==
  /\ variant \in Variants
  /\ equipmentHealth = Micro
  /\ currentFilterClogLevel = 0
  /\ lastMonth = 0
  /\ call = NoCall(AssetState(Micro, 0, 0))
  /\ generated = 0
  /\ rec = NoRecord
  /\ rng = SeededRng
  /\ pc = "read"
  /\ csvFile \in CsvFiles
  /\ climateRecords = <<>>
  /\ allHvacData = <<>>
  /\ jsonData = <<>>
  /\ \E k \in SinkKinds : sink = [kind |-> k, calls |-> 0, stored |-> "none"]

\* climate.ReadInmetCSV and the two tests after it: an error is fatal, an
\* empty result ends the run without output.
\* Mutant of AfterRead: no test for an empty result.
AfterReadNoEmptyTest(r) ==
  IF r.err # "nil" THEN "aborted" ELSE "generate"

\* main after ReadInmetCSV: log.Fatalf on an error, return when no climate
\* record was read, the generation loop otherwise.
AfterRead(r) ==
  IF r.err # "nil" THEN "aborted"
  ELSE IF Len(r.data) = 0 THEN "done" ELSE "generate"

ReadClimate ==
  /\ pc = "read"
  /\ LET r == ReadInmetCSV(csvFile)
     IN /\ climateRecords' = r.data
        /\ pc' = AfterRead(r)
  /\ UNCHANGED <<csvFile, allHvacData, jsonData, sink>>
  /\ UNCHANGED hvacVars

\* The draw vectors tried in a run of main: the branch draws at 0, the zone
\* occupied, the range draws all low or all high.
MainDraws(v, pre, c) ==
  {d \in (IF v = "drift" THEN DriftDraws(pre, c) ELSE SeasonalDraws(c)) :
     /\ d.occupancy = 5 /\ d.fault = 0 /\ d.filter = 0
     /\ d.health = d.duct /\ d.clog = d.duct
     /\ d.maintHealth \in {0, d.duct} /\ d.maintClog \in {0, d.duct}
     /\ d.setPoint = d.duct}

\* The position of record r in the range loop: the next record to generate.
LoopRecord(records, done) == records[Len(done) + 1]

\* Mutant of LoopAppend: the new record is put in front.
LoopPrepend(done, r) == <<r>> \o done

\* Where the loop puts the record generated for the current position.
LoopAppend(done, r) == Append(done, r)

\* One iteration of the loop over climateRecords.
GenerateNext ==
  /\ pc = "generate"
  /\ Len(allHvacData) < Len(climateRecords)
  /\ LET c == LoopRecord(climateRecords, allHvacData)
     IN \E d \in MainDraws(variant,
                            AssetState(equipmentHealth, currentFilterClogLevel,
                                       lastMonth), c) :
          /\ Emit(c, d)
          /\ allHvacData' = LoopAppend(allHvacData, rec')
  /\ UNCHANGED <<pc, csvFile, climateRecords, jsonData, sink>>

\* hvac.WriteJSON after the loop: json.MarshalIndent keeps every element in
\* its order, or fails and the run is aborted.
WriteJSON ==
  /\ pc = "generate"
  /\ Len(allHvacData) = Len(climateRecords)
  /\ \E ok \in BOOLEAN :
       /\ jsonData' = IF ok THEN allHvacData ELSE <<>>
       /\ pc' = IF ok THEN "save" ELSE "aborted"
  /\ UNCHANGED <<csvFile, climateRecords, allHvacData, sink>>
  /\ UNCHANGED hvacVars

\* The sink call and the test after it.
Save ==
  /\ pc = "save"
  /\ \/ /\ sink' = [sink EXCEPT !.calls = @ + 1, !.stored = "full"]
        /\ pc' = "done"
     \/ /\ \E left \in FailedStore(sink.kind) :
             sink' = [sink EXCEPT !.calls = @ + 1, !.stored = left]
        /\ pc' = "aborted"
  /\ UNCHANGED <<csvFile, climateRecords, allHvacData, jsonData>>
  /\ UNCHANGED hvacVars

NextMain == ReadClimate \/ GenerateNext \/ WriteJSON \/ Save

SpecMain == InitMain /\ [][NextMain]_vars

\* ================================================================= claims
Called == generated > 0

HealthFloor(v) == IF v = "drift" THEN HealthFloorDrift ELSE HealthFloorSeasonal

FilterThreshold(v) ==
  IF v = "drift" THEN FilterThresholdDrift ELSE FilterThresholdSeasonal

\* The power the last call would have reported for outdoor humidity rh, with
\* the same package state, the same record otherwise and the same draws.
WhatIfPower(rh) ==
  GenerateHvacData(variant, call.pre,
                   [call.climate EXCEPT !.RelativeHumidity = rh],
                   call.draws).rec.PowerConsumptionKwH

\* C1: after every call of GenerateHvacData the asset state is within its
\* bounds: floor <= equipment health <= 1.0 (floor 0.2 in the drift
\* generator, 0.4 in the seasonal ones) and 0 <= filter clog level <= 1.
C1_AssetStateBounds ==
  Called =>
    /\ equipmentHealth >= HealthFloor(variant)
    /\ equipmentHealth <= HealthCeiling
    /\ currentFilterClogLevel >= 0
    /\ currentFilterClogLevel <= ClogCeiling

\* A drift call whose decrement would take the health below 0.2, and a clog
\* increment that would pass 1.0: both clamps acted.
C1_Witness ==
  /\ Called
  /\ variant = "drift"
  /\ call.pre.health - call.draws.health < HealthFloorDrift
  /\ equipmentHealth = HealthFloorDrift
  /\ call.pre.clog + call.draws.clog * 10 > ClogCeiling
  /\ currentFilterClogLevel = ClogCeiling

\* C2: every emitted record, in every operating mode, reports a power
\* consumption at or above the minimum of 0.01 (so never zero).
C2_PowerFloor == Called => rec.PowerConsumptionKwH >= StandbyPower

\* C5 as claimed: an unoccupied record is OFF, draws near-zero power and
\* reports fault code OK, whatever the asset state.
C5_UnoccupiedOffOk ==
  (Called /\ ~rec.OccupancyStatus) =>
    /\ rec.SystemStatus = "OFF"
    /\ rec.PowerConsumptionKwH <= StandbyPower + 1
    /\ rec.FaultCode = "OK"

\* C5 amended: an unoccupied record is OFF and draws near-zero power; its
\* fault code is OK unless the clog level exceeds the dirty-filter threshold,
\* and then it is OK or FP-AL-01.
C5_UnoccupiedOffFilterAlarm ==
  (Called /\ ~rec.OccupancyStatus) =>
    /\ rec.SystemStatus = "OFF"
    /\ rec.PowerConsumptionKwH <= StandbyPower + 1
    /\ rec.FaultCode \in {"OK", "FP-AL-01"}
    /\ (currentFilterClogLevel <= FilterThreshold(variant)
          => rec.FaultCode = "OK")

\* An unoccupied weekday record at 03:00 that reports the dirty-filter alarm.
C5_Witness ==
  /\ Called
  /\ ~rec.OccupancyStatus
  /\ rec.hour = 3 /\ rec.weekday \in 1..5
  /\ rec.SystemStatus = "OFF"
  /\ rec.FaultCode = "FP-AL-01"

\* C6: in COOLING the humidity contribution is active only above 75 %: with
\* everything else fixed, any two humidities at or below 75 % give the same
\* power, and above 75 % the contribution grows linearly with (humidity - 75)
\* (ten points above the threshold add ten times what one point adds, up to
\* the rounding of the fixed-point products).
C6_HumidityThreshold ==
  (Called /\ rec.SystemStatus = "COOLING") =>
    /\ \A rh \in Humidities :
         rh <= HumidityThreshold
           => WhatIfPower(rh) = WhatIfPower(HumidityThreshold)
    /\ Abs((WhatIfPower(85000) - WhatIfPower(HumidityThreshold))
           - 10 * (WhatIfPower(76000) - WhatIfPower(HumidityThreshold))) <= 30

\* C7: with everything else fixed, the power of a COOLING record is
\* non-decreasing in outdoor humidity for humidities above 75 %.
C7_HumidityMonotone ==
  (Called /\ rec.SystemStatus = "COOLING") =>
    \A rh1 \in Humidities, rh2 \in Humidities :
      (rh1 > HumidityThreshold /\ rh1 <= rh2)
        => WhatIfPower(rh1) <= WhatIfPower(rh2)

\* A COOLING record above 75 % whose power is below what it would be at 100 %.
C7_Witness ==
  /\ Called
  /\ rec.SystemStatus = "COOLING"
  /\ rec.OutdoorHumidity > HumidityThreshold
  /\ rec.PowerConsumptionKwH = WhatIfPower(rec.OutdoorHumidity)
  /\ rec.PowerConsumptionKwH < WhatIfPower(100000)

\* C8: COOLING at 35 degrees with health 1.0 and clog 0: the power at 85 %
\* humidity is strictly greater than at 50 %, all draws equal.
C8_HumidScenario ==
  (/\ Called
   /\ rec.SystemStatus = "COOLING"
   /\ rec.OutdoorTemperature = 35000
   /\ equipmentHealth = HealthCeiling
   /\ currentFilterClogLevel = 0)
    => WhatIfPower(85000) > WhatIfPower(50000)

\* The scenario's record in the seasonal generator, emitted at 85 %.
C8_Witness ==
  /\ Called
  /\ variant = "seasonal"
  /\ rec.SystemStatus = "COOLING"
  /\ rec.OccupancyStatus
  /\ rec.OutdoorTemperature = 35000
  /\ rec.OutdoorHumidity = 85000
  /\ equipmentHealth = HealthCeiling
  /\ currentFilterClogLevel = 0

\* The clog levels the seasonal profile can give a record of month m.
ThreeDraws == {0, 50, 99}

SeasonalClogs(m) ==
  {SeasonalClog(ClimateRecord(m, 3, 10, 22000, 50000),
                DrawVector(0, 0, 0, mc, 0, jc, 0, 0, 0, 0, 0, 0, 0, 0, 0)) :
     mc \in ThreeDraws, jc \in ThreeDraws}

\* C9: the clog level of a September record is below that of the month
\* before.  Seasonal generators: every September record's clog level is
\* below every August record's.  Drift generator: every September record's
\* clog level is below 0.05, whatever had accumulated.
C9_MaintenanceDiscontinuity ==
  Called =>
    /\ (variant \in SeasonalVariants /\ rec.month = September)
         => \A g \in SeasonalClogs(8) : currentFilterClogLevel < g
    /\ (variant \in SeasonalVariants /\ rec.month = 8)
         => \A g \in SeasonalClogs(September) : g < currentFilterClogLevel
    /\ (variant = "drift" /\ rec.month = September)
         => currentFilterClogLevel < MaintenanceClogBound

\* A drift record of September that follows a clog level above 0.6.
C9_Witness ==
  /\ Called
  /\ variant = "drift"
  /\ rec.month = September
  /\ call.pre.clog > FilterThresholdDrift
  /\ currentFilterClogLevel < MaintenanceClogBound

CopiesInput(out, in) ==
  /\ out.month = in.month /\ out.weekday = in.weekday /\ out.hour = in.hour
  /\ out.OutdoorTemperature = in.TemperatureAir
  /\ out.OutdoorHumidity = in.RelativeHumidity

\* C11: a run produces one sensor record per climate record, in the same
\* order: at every point of the loop the records generated so far copy the
\* timestamp, outdoor temperature and outdoor humidity of the climate records
\* at the same positions, and once the loop is over there are as many sensor
\* records as climate records, so none is dropped, duplicated or reordered.
C11_OneRecordPerInput ==
  /\ Len(allHvacData) <= Len(climateRecords)
  /\ \A i \in 1..Len(allHvacData) : CopiesInput(allHvacData[i], climateRecords[i])
  /\ pc \in {"save", "done"} => Len(allHvacData) = Len(climateRecords)
  /\ pc \in {"save", "done"} => jsonData = allHvacData

\* A finished run over two different climate records.
C11_Witness ==
  /\ pc = "done"
  /\ Len(climateRecords) = 2
  /\ climateRecords[1] # climateRecords[2]
  /\ Len(allHvacData) = 2
  /\ CopiesInput(allHvacData[2], climateRecords[2])
  /\ ~CopiesInput(allHvacData[2], climateRecords[1])

\* The thermal delta the thermostat of revision v compares: outdoor
\* temperature minus set-point in generator.go, uncontrolled indoor
\* temperature minus set-point in part_001 and main.go.
ThermalDelta(v, c, d) ==
  IF v = "drift" THEN c.TemperatureAir - DriftSetPoint(d)
  ELSE uncontrolledInternalTemp(c, d) - SeasonalSetPoint(d)

\* The thresholds of the thermostat (degrees, in thousandths).
ThresholdHi(v) == IF v = "drift" THEN 4000 ELSE 1500

ThresholdLo(v) == IF v = "drift" THEN 1500 ELSE 1000

\* C12: for an occupied record the mode follows the thermal delta: above
\* +threshold_hi COOLING, below -threshold_hi HEATING, |delta| below
\* threshold_lo IDLE (FAN_ONLY when the CO2 rule overrides it), and in the
\* middle band threshold_lo <= |delta| <= threshold_hi FAN_ONLY, never OFF.
C12_ThermalModes ==
  (Called /\ rec.OccupancyStatus) =>
    LET delta == ThermalDelta(variant, call.climate, call.draws)
        hi == ThresholdHi(variant)
        lo == ThresholdLo(variant)
    IN /\ delta > hi => rec.SystemStatus = "COOLING"
       /\ delta < 0 - hi => rec.SystemStatus = "HEATING"
       /\ Abs(delta) < lo =>
            \/ rec.SystemStatus = "IDLE"
            \/ rec.SystemStatus = "FAN_ONLY" /\ rec.CO2LevelPpm > Co2Threshold
       /\ (Abs(delta) >= lo /\ Abs(delta) <= hi) => rec.SystemStatus = "FAN_ONLY"
       /\ (Abs(delta) >= lo /\ Abs(delta) <= hi) => rec.SystemStatus # "OFF"

\* C13: ventilation override: no record is emitted with a CO2 level above
\* 800 ppm and systemStatus IDLE or OFF; such a record is FAN_ONLY.
C13_VentilationOverride ==
  Called => ~(rec.CO2LevelPpm > Co2Threshold /\ rec.SystemStatus \in {"IDLE", "OFF"})

\* The occupancy probability of revision v for record c, in percent: the
\* share of the hundred equally likely draws for which the zone is occupied.
OccupancyPercent(v, c) ==
  Cardinality({r \in 0..99 : IF v = "drift" THEN simulateOccupancyDrift(c, r)
                                            ELSE simulateOccupancy(c, r)})

\* C14: the occupancy probability is 0.90 on Monday-Friday with the hour in
\* [8,12) or [14,18), 0.30 on Monday-Friday with the hour in [12,14), and 0.10
\* at every other time (weekend hours, lunch included, and weekday hours
\* outside 08:00-18:00).
C14_OccupancyProbability ==
  Called =>
    LET c == call.climate
        weekday == c.weekday >= 1 /\ c.weekday <= 5
        lunch == c.hour >= 12 /\ c.hour < 14
        business == c.hour >= 8 /\ c.hour < 18
    IN OccupancyPercent(variant, c) =
         (IF weekday /\ lunch THEN 30
          ELSE IF weekday /\ business THEN 90 ELSE 10)

\* C15: a failure of reading, serializing or persisting aborts the run and
\* leaves no telemetry persisted; the sink is called at most once per run,
\* and only after every climate record has its sensor record and the
\* serialization has succeeded; partial telemetry is never emitted.
C15_FailFastNoPartialOutput ==
  /\ pc = "aborted" => sink.stored = "none"
  /\ sink.stored # "partial"
  /\ sink.calls <= 1
  /\ sink.calls = 1 =>
       /\ Len(climateRecords) > 0
       /\ Len(allHvacData) = Len(climateRecords)
       /\ jsonData = allHvacData

\* A row the claim lets through: hour of 3 or 4 characters, and timestamp,
\* temperature and humidity that parse.
RowWellFormed(row) ==
  /\ Len(row.timeStrRaw) \in {3, 4}
  /\ ParseTimestamp(row.date, row.timeStrRaw).ok
  /\ row.temp.ok
  /\ row.hum.ok

\* One climate record for each such row, in the file's row order.
RecordsOfWellFormedRows(rows) ==
  LET kept == SelectSeq(rows, RowWellFormed)
  IN [i \in 1..Len(kept) |-> RowRecord(kept[i])]

\* C16: on a file that opens and has its header, ReadInmetCSV does not abort:
\* it skips the rows whose hour has not 3 or 4 characters or whose timestamp,
\* temperature or humidity does not parse, and returns one climate record for
\* every other data row, in row order.
C16_RowSkipping ==
  (pc # "read" /\ csvFile.status = "ok") =>
    /\ ReadInmetCSV(csvFile).err = "nil"
    /\ climateRecords = RecordsOfWellFormedRows(csvFile.rows)

\* C17: the core draws from one generator per run, seeded once at package
\* initialization and never re-seeded or replaced between records: after any
\* number of records the generator is still the one init() built, it has
\* been seeded once, and it has supplied every draw of the records so far
\* (each call takes at least nine).
C17_SingleGenerator ==
  /\ rng.source = "init"
  /\ rng.seedings = 1
  /\ rng.position >= 9 * generated

\* Two records generated from the generator init() built.
C17_Witness ==
  /\ generated = 2
  /\ Len(allHvacData) = 2
  /\ rng.source = "init"
  /\ rng.seedings = 1
  /\ rng.position >= 18

\* Every value rng.Float64() can take in the model.
AllDraws == 0..99

\* C18: in each generator variant some record has a clog level above the
\* variant's high threshold (0.6 drift, 0.8 seasonal) and reports FP-AL-01:
\* for the linked variant there is a package state, a month and a set of
\* draws for which the call yields such a record.
C18_FilterAlarmReachable ==
  IF variant = "drift"
  THEN \E pre \in StartStates("drift"), c \in Climates :
         \E d \in DriftDraws(pre, c) :
           /\ DriftClog(pre, c, d) > FilterThresholdDrift
           /\ GenerateHvacDataDrift(pre, c, d).rec.FaultCode = "FP-AL-01"
  ELSE \E m \in 1..12, mc \in AllDraws, jc \in AllDraws :
         LET c == ClimateRecord(m, 3, 3, 22000, 50000)
             d == DrawVector(0, 0, 50, mc, 50, jc, 50, 50, 50, 50, 0, 0, 99, 0, 50)
             clog == SeasonalClog(c, d)
         IN /\ clog > FilterThresholdSeasonal
            /\ SeasonalFaultCode(SeasonalStatus(c, d), SeasonalHealth(c, d), clog,
                                 SeasonalDuctPressure(clog, d), d) = "FP-AL-01"

\* C19: HP-AL-01 is reported only by COOLING records and HT-FL-02 only by
\* HEATING records; a record that is neither, whose clog level is at or
\* below the filter threshold and whose duct pressure is at or below 20,
\* reports OK.
C19_ModeAlarms ==
  Called =>
    /\ rec.FaultCode = "HP-AL-01" => rec.SystemStatus = "COOLING"
    /\ rec.FaultCode = "HT-FL-02" => rec.SystemStatus = "HEATING"
    /\ (/\ rec.SystemStatus \notin {"COOLING", "HEATING"}
        /\ currentFilterClogLevel <= FilterThreshold(variant)
        /\ rec.DuctStaticPressurePa <= DuctCeiling)
         => rec.FaultCode = "OK"

\* A COOLING record whose fault draw exceeds the health: HP-AL-01.
C19_Witness ==
  /\ Called
  /\ rec.SystemStatus = "COOLING"
  /\ FaultDrawExceeds(call.draws.fault, equipmentHealth)
  /\ rec.FaultCode = "HP-AL-01"

\* The power of the last call's record had the asset state been (h, g).
PowerWith(h, g) ==
  LET c == call.climate
      d == call.draws
  IN IF variant = "drift" THEN DriftPower(rec.SystemStatus, c, h, g, d)
     ELSE IF variant = "seasonal"
          THEN SeasonalPower(rec.SystemStatus, c, h, g, d)
          ELSE SeasonalMulPower(rec.SystemStatus, c, h, g, d)

\* C20: HEATING power carries the inefficiency term of COOLING: everything
\* else fixed, the power of a HEATING record is strictly higher with a clog
\* level 0.1 higher, and strictly higher with a health 0.1 lower.
C20_HeatingInefficiency ==
  (Called /\ rec.SystemStatus = "HEATING") =>
    LET h == equipmentHealth
        g == currentFilterClogLevel
    IN /\ g + 100000 <= ClogCeiling => PowerWith(h, g + 100000) > PowerWith(h, g)
       /\ h - 100000 >= HealthFloor(variant)
            => PowerWith(h - 100000, g) > PowerWith(h, g)

\* C21: in the drift generator the health never increases from one record
\* to the next outside the maintenance month, and the clog level never
\* decreases from one record to the next unless the later record is in
\* September.
C21_DriftMonotone ==
  (Called /\ variant = "drift" /\ rec.month # September) =>
    /\ equipmentHealth <= call.pre.health
    /\ currentFilterClogLevel >= call.pre.clog

\* A record outside September after which the health is lower and the clog
\* level higher than before it.
C21_Witness ==
  /\ Called
  /\ variant = "drift"
  /\ rec.month # September
  /\ call.pre.clog > 0
  /\ equipmentHealth < call.pre.health
  /\ currentFilterClogLevel > call.pre.clog

\* Other histories: the package states another run may have reached, and the
\* other values of the draws that only set the asset state.
OtherAssetStates ==
  {AssetState(Micro, 0, 0), AssetState(930700, 693000, 8),
   AssetState(200080, 999900, 11), AssetState(406000, 49500, 9)}

OtherAssetDraws(d) ==
  {[d EXCEPT !.health = x, !.clog = x, !.maintHealth = x, !.maintClog = x,
             !.jitterHealth = x, !.jitterClog = x] : x \in TwoDraws}

\* The call of the last record repeated from asset state pre with the asset
\* draws d: same climate record, same draws otherwise.
Replayed(pre, d) == GenerateHvacData(variant, pre, call.climate, d)

\* C22: the mode is computed fresh for each record: had the run reached the
\* last record with another history and another asset state, the same
\* climate record and the same draws for the record would give the same
\* occupancyStatus and systemStatus.
C22_ModeMemoryless ==
  Called =>
    \A pre \in OtherAssetStates : \A d \in OtherAssetDraws(call.draws) :
      /\ Replayed(pre, d).rec.OccupancyStatus = rec.OccupancyStatus
      /\ Replayed(pre, d).rec.SystemStatus = rec.SystemStatus

\* A COOLING record that another history would give another asset state and
\* another power, and still the same mode.
C22_Witness ==
  /\ Called
  /\ rec.SystemStatus = "COOLING"
  /\ \E pre \in OtherAssetStates : \E d \in OtherAssetDraws(call.draws) :
       /\ Replayed(pre, d).health # equipmentHealth
       /\ Replayed(pre, d).clog # currentFilterClogLevel
       /\ Replayed(pre, d).rec.PowerConsumptionKwH # rec.PowerConsumptionKwH
       /\ Replayed(pre, d).rec.SystemStatus = "COOLING"

\* The power of the last record's mode at health h and clog level g with the
\* jitter draw at 0.5, where the jitter factor is exactly 1.
BasePowerWith(h, g) ==
  LET c == call.climate
      d == [call.draws EXCEPT !.power = 50]
  IN IF variant = "drift" THEN DriftPower(rec.SystemStatus, c, h, g, d)
     ELSE IF variant = "seasonal"
          THEN SeasonalPower(rec.SystemStatus, c, h, g, d)
          ELSE SeasonalMulPower(rec.SystemStatus, c, h, g, d)

\* C23: the power of a FAN_ONLY record is a base draw of 0.3 to 0.4 before
\* the jitter, and does not depend on the health or the clog level: with the
\* same draws and any other asset state the record has the same power.
C23_FanOnlyPower ==
  (Called /\ rec.SystemStatus = "FAN_ONLY") =>
    /\ BasePowerWith(equipmentHealth, currentFilterClogLevel) \in 300..400
    /\ \A pre \in OtherAssetStates :
         PowerWith(pre.health, pre.clog) = rec.PowerConsumptionKwH

\* The indoor temperature of the last record before any action of the system.
UncontrolledTemp ==
  IF variant = "drift" THEN DriftReturnTemp(call.climate, call.draws)
  ELSE uncontrolledInternalTemp(call.climate, call.draws)

\* C24: in COOLING the supply air is 8 to 12 degrees below the return air and
\* the refrigerant pressure is in [150, 170); in HEATING the supply air is 5
\* to 8 degrees above the return air and the pressure is in [100, 105); in
\* every other mode the supply air equals the uncontrolled indoor temperature
\* and the pressure is in [80, 85).
C24_ModeSignature ==
  Called =>
    LET ret == rec.ReturnAirTemperature
        sup == rec.SupplyAirTemperature
        psi == rec.RefrigerantPressurePsi
    IN IF rec.SystemStatus = "COOLING"
       THEN ret - sup \in 8000..12000 /\ psi >= 150000 /\ psi < 170000
       ELSE IF rec.SystemStatus = "HEATING"
            THEN sup - ret \in 5000..8000 /\ psi >= 100000 /\ psi < 105000
            ELSE sup = UncontrolledTemp /\ psi >= 80000 /\ psi < 85000

\* An IDLE record of the seasonal generator whose reported indoor
\* temperature was moved to the set point while the supply air kept the
\* uncontrolled temperature.
C24_Witness ==
  /\ Called
  /\ variant = "seasonal"
  /\ rec.SystemStatus = "IDLE"
  /\ rec.SupplyAirTemperature # rec.ReturnAirTemperature
  /\ rec.SupplyAirTemperature = UncontrolledTemp

C26_DuctPressureRange ==
  Called =>
    /\ rec.DuctStaticPressurePa >= 10000
    /\ rec.DuctStaticPressurePa < 18000
    /\ rec.DuctStaticPressurePa <= DuctCeiling
    /\ rec.FaultCode # "FP-AL-02"

\* A FAN_ONLY record of the drift generator with the filter fully clogged:
\* the highest base and the highest clog term together.
C26_Witness ==
  /\ Called
  /\ variant = "drift"
  /\ rec.SystemStatus = "FAN_ONLY"
  /\ currentFilterClogLevel = ClogCeiling
  /\ rec.DuctStaticPressurePa > 17900

\* C27: ReadInmetCSV never reads a field past the end of a data row: a row
\* with fewer fields than the mapped columns is skipped or reported as an
\* error, and the read of the file does not end in a panic.
C27_ShortRowsHandled ==
  pc # "read" =>
    /\ ReadInmetCSV(csvFile).err # "panic"
    /\ \A i \in 1..Len(csvFile.rows) :
         (csvFile.status = "ok" /\ csvFile.rows[i].shape = "short") =>
           ReadRows(SubSeq(csvFile.rows, i, i), <<>>).err \in {"nil", "error"}

\* C28: when ReadInmetCSV returns no climate record and no error, main
\* terminates without generating a sensor record, without serializing and
\* without invoking the sink: no local file is written, no upload is made.
C28_EmptyInputStops ==
  (pc # "read" /\ ReadInmetCSV(csvFile).err = "nil"
     /\ ReadInmetCSV(csvFile).data = <<>>) =>
    /\ pc = "done"
    /\ generated = 0
    /\ allHvacData = <<>>
    /\ jsonData = <<>>
    /\ sink.calls = 0
    /\ sink.stored = "none"

\* A run over a file whose data rows were all skipped, ended without output.
C28_Witness ==
  /\ pc = "done"
  /\ csvFile.status = "ok"
  /\ Len(csvFile.rows) = MaxRows
  /\ ReadInmetCSV(csvFile).err = "nil"
  /\ climateRecords = <<>>
  /\ generated = 0
  /\ sink.calls = 0

====
